---- MODULE Spec2Model ----
(***************************************************************************)
(* Model of the WeChat event endpoint (app.post('/')) in its three         *)
(* revisions:                                                              *)
(*   "cache" : src/unnamed/part_002  (timeout text + Response Cache)       *)
(*   "push"  : src/unnamed/part_001  (timedOut flag + sendCustomMessage)   *)
(*   "gate"  : src/src/index.ts      (isResponseSent + sendCustomMessage)  *)
(* One action is one macrotask of the Node event loop together with the    *)
(* promise reactions (microtasks) it triggers.                             *)
(* Strings are sequences of tokens; the inbound Content is a sequence of   *)
(* single characters so that trim() is computed.                           *)
(***************************************************************************)
EXTENDS Integers, Sequences, FiniteSets, TLC

\* ------------------------------------------------------------------ state
\* rev              the revision of the handler that is deployed
\* now              Date.now()
\* req              one record per HTTP request: the handler's position and locals
\* processedMsgIds  global.processedMsgIds
\* dedupTimers      the pending setTimeout(... delete(msgId), 60000) callbacks
\* responseCache    global.responseCache
\* evictLog         history: the keys removed from responseCache, in order
\* call             a direct call of replyToXml / sendCustomMessage: its
\*                  arguments and what each of them emitted
\* verified         the last GET / request: its query and the response to it
VARIABLES rev, now, req, processedMsgIds, dedupTimers, responseCache, evictLog,
          call, verified

vars == <<rev, now, req, processedMsgIds, dedupTimers, responseCache, evictLog,
          call, verified>>

\* ------------------------------------------------------------------ bounds
NumReq == 2
MaxTicks == 2

\* --------------------------------------------------------- program constants
TIMEOUT_MS == 30000
DEDUP_MS == 60000
CACHE_TTL_MS == 300000
CACHE_MAX == 100

\* ------------------------------------------------------------------ strings
UNDEF == <<"#undefined">>
SUCCESS == <<"success">>
INVALID_SIGNATURE == <<"Invalid Signature">>
UNSUPPORTED == <<"Unsupported message type.">>
APOLOGY == <<"Sorry, I encountered an error communicating with the AI service.">>
EMPTY_RESPONSE == <<"Error: AI returned an empty response.">>
TIMEOUT_TEXT == <<"processing, resend the same message in 10-20 seconds">>

Truthy(s) == s # UNDEF /\ s # <<>>

\* a string as join('') and res.send see it: undefined counts as ''
Str(s) == IF s = UNDEF THEN <<>> ELSE s

IsSpace(ch) == ch \in {" ", "\t", "\n"}

RECURSIVE TrimLeft(_)
TrimLeft(s) ==
  IF s = <<>> THEN <<>>
  ELSE IF IsSpace(Head(s)) THEN TrimLeft(Tail(s)) ELSE s

RECURSIVE TrimRight(_)
TrimRight(s) ==
  IF s = <<>> THEN <<>>
  ELSE IF IsSpace(s[Len(s)]) THEN TrimRight(SubSeq(s, 1, Len(s) - 1)) ELSE s

Trim(s) == TrimRight(TrimLeft(s))

\* ------------------------------------------------------------------ replies
TextReply(c) == [type |-> "text", content |-> c, mediaId |-> UNDEF]
ImageReply(m) == [type |-> "image", content |-> UNDEF, mediaId |-> m]
NoReply == [type |-> "none", content |-> UNDEF, mediaId |-> UNDEF]

timeoutReply == TextReply(TIMEOUT_TEXT)

\* ---------------------------------------------------------------- responses
NoBody == [MsgType |-> "none", ToUserName |-> <<>>, FromUserName |-> <<>>,
           CreateTime |-> 0, Content |-> <<>>, MediaId |-> <<>>]

Plain(status, text) ==
  [status |-> status, xml |-> FALSE, text |-> text, doc |-> NoBody]

Xml(doc) == [status |-> 200, xml |-> TRUE, text |-> <<>>, doc |-> doc]

buildTextResponse(toUser, fromUser, content, t) ==
  [MsgType |-> "text", ToUserName |-> toUser, FromUserName |-> fromUser,
   CreateTime |-> t \div 1000, Content |-> content, MediaId |-> <<>>]

buildImageResponse(toUser, fromUser, mediaId, t) ==
  [MsgType |-> "image", ToUserName |-> toUser, FromUserName |-> fromUser,
   CreateTime |-> t \div 1000, Content |-> <<>>, MediaId |-> mediaId]

replyToXml(toUser, fromUser, reply, t) ==
  IF reply.type = "image" /\ Truthy(reply.mediaId)
  THEN buildImageResponse(toUser, fromUser, reply.mediaId, t)
  ELSE buildTextResponse(toUser, fromUser,
                         IF Truthy(reply.content) THEN reply.content ELSE <<>>, t)

\* the JSON body sendCustomMessage posts to the custom-message API
NoPost == [touser |-> <<>>, msgtype |-> "none", content |-> UNDEF, media_id |-> UNDEF]

CustomBody(toUser, reply) ==
  [touser |-> toUser, msgtype |-> reply.type,
   content |-> IF reply.type = "text" THEN reply.content ELSE UNDEF,
   media_id |-> IF reply.type = "image" THEN reply.mediaId ELSE UNDEF]

\* mutant: a failed post is tried again
OobSettle_Retry(oob, i, result) ==
  LET o == [oob EXCEPT ![i].state = result,
                       ![i].body = IF result = "notoken" THEN NoPost
                                   ELSE CustomBody(oob[i].to, oob[i].reply)]
  IN IF result = "failed" THEN Append(o, [oob[i] EXCEPT !.state = "calling"]) ELSE o

\* sendCustomMessage after await getAccessToken(): no token -> return;
\* otherwise the body is posted and a failure of the post is logged
OobSettle(oob, i, result) ==
  [oob EXCEPT ![i].state = result,
              ![i].body = IF result = "notoken" THEN NoPost
                          ELSE CustomBody(oob[i].to, oob[i].reply)]

\* how the network part of sendCustomMessage can end
OobResults == {"notoken", "sent", "failed"}

\* ------------------------------------------------------------------- events
Ev(sig, body, id, from, type, content) ==
  [sig |-> sig, body |-> body, MsgId |-> id, FromUserName |-> from,
   ToUserName |-> <<"gh">>, MsgType |-> type, Content |-> content,
   PicUrl |-> UNDEF]

EvBadSig == Ev(FALSE, "xml", <<"m1">>, <<"u">>, "text", <<"a">>)
EvEmptyBody == Ev(TRUE, "empty", <<>>, <<>>, "none", UNDEF)
EvGarbage == Ev(TRUE, "garbage", <<>>, <<>>, "none", UNDEF)
EvTextA == Ev(TRUE, "xml", <<"m1">>, <<"u">>, "text", <<" ", "a">>)
EvTextA2 == Ev(TRUE, "xml", <<"m2">>, <<"u">>, "text", <<"a">>)
EvTextB == Ev(TRUE, "xml", <<"m3">>, <<"v">>, "text", <<"b">>)
EvImage == Ev(TRUE, "xml", <<>>, <<"u">>, "image", UNDEF)
EvOther == Ev(TRUE, "xml", <<"m4">>, <<"v">>, "event", UNDEF)
EvNoContent == Ev(TRUE, "xml", <<"m5">>, <<"v">>, "text", UNDEF)
EvOtherRoot == Ev(TRUE, "otherroot", <<>>, <<>>, "none", UNDEF)
EvSubscribe == Ev(TRUE, "xml", UNDEF, <<"v">>, "event", UNDEF)
EvPhoto1 ==
  [Ev(TRUE, "xml", <<"m6">>, <<"u">>, "image", UNDEF) EXCEPT !.PicUrl = <<"pic1">>]
EvPhoto2 ==
  [Ev(TRUE, "xml", <<"m7">>, <<"u">>, "image", UNDEF) EXCEPT !.PicUrl = <<"pic2">>]

\* the submissions of the core runs: two events of one sender with the same
\* trimmed text (one with a leading blank)
Inputs == {EvTextA, EvTextA2}

\* with a full cache: an event of another sender as well
FullInputs == {EvTextA, EvTextA2, EvTextB}

\* what the AI backend hands back to processMessage: a text, a markdown image,
\* a failed call (chatWithAI returns its apology) or a content that is not a
\* string (replyContent.match / matchAll throws, processMessage rejects)
BackendResults == {"r1", "img", "throw"}

\* the backend answers of the resend runs
ResendResults == {"r1", "img"}

\* mutant: the signature is not checked
validateSignature_Accept(ev) == TRUE

\* sha1(sort(token, timestamp, nonce)) === signature; ev.sig tells whether the
\* request's signature is the digest of its timestamp and nonce
validateSignature(ev) == ev.sig

\* mutant: whatever the parser returns is taken for a message
parseXML_Lenient(ev) == "message"

\* parseXML: null on a parse error, an object without .xml for another root
parseXML(ev) == IF ev.body = "xml" THEN "message" ELSE "none"

\* the promise processMessage returns before any backend answer:
\* Content.trim() on a text message without Content throws at once, a type
\* other than text/image resolves at once, the rest awaits the backend
Immediate(ev) ==
  IF ev.MsgType = "text"
  THEN (IF ev.Content = UNDEF THEN "rejected" ELSE "pending")
  ELSE IF ev.MsgType = "image" THEN "pending" ELSE "resolved"

\* mutant: a failed backend call yields an empty reply
processMessage_NoApology(rv, result) ==
  IF result = "error" THEN TextReply(<<>>)
  ELSE IF result = "img"
       THEN (IF rv = "cache" THEN TextReply(<<"image links">>)
             ELSE ImageReply(<<"media1">>))
       ELSE TextReply(<<result>>)

processMessage(rv, result) ==
  IF result = "error" THEN TextReply(APOLOGY)
  ELSE IF result = "img"
       THEN (IF rv = "cache" THEN TextReply(<<"image links">>)
             ELSE ImageReply(<<"media1">>))
       ELSE TextReply(<<result>>)

\* -------------------------------------------------------- Response Cache Map
\* a JavaScript Map: a sequence of entries in insertion order
MapHas(c, k) == \E i \in 1..Len(c) : c[i].key = k

MapIndex(c, k) == CHOOSE i \in 1..Len(c) : c[i].key = k

MapGet(c, k) == c[MapIndex(c, k)]

\* mutant: a store moves the key to the end of the order
MapSet_MoveToEnd(c, k, reply, t) ==
  LET e == [key |-> k, reply |-> reply, timestamp |-> t]
      rest == IF \E i \in 1..Len(c) : c[i].key = k
              THEN LET i == CHOOSE j \in 1..Len(c) : c[j].key = k
                   IN SubSeq(c, 1, i - 1) \o SubSeq(c, i + 1, Len(c))
              ELSE c
  IN Append(rest, e)

MapSet(c, k, reply, t) ==
  LET e == [key |-> k, reply |-> reply, timestamp |-> t]
  IN IF MapHas(c, k) THEN [c EXCEPT ![MapIndex(c, k)] = e] ELSE Append(c, e)

MapDelete(c, k) ==
  IF MapHas(c, k)
  THEN LET i == MapIndex(c, k)
       IN SubSeq(c, 1, i - 1) \o SubSeq(c, i + 1, Len(c))
  ELSE c

\* mutant: the key of a message without text names its picture
CacheKey_PerImage(ev) ==
  ev.FromUserName \o <<":">> \o
    (IF Truthy(ev.Content) THEN Trim(ev.Content) ELSE Str(ev.PicUrl))

\* mutant: the key is built from the text as received
CacheKey_NoTrim(ev) ==
  ev.FromUserName \o <<":">> \o (IF Truthy(ev.Content) THEN ev.Content ELSE <<>>)

CacheKey(ev) ==
  ev.FromUserName \o <<":">> \o
    Trim(IF Truthy(ev.Content) THEN ev.Content ELSE <<>>)

\* mutant: a lookup that finds a stale entry deletes it
AfterLookup_Purge(c, k, t) ==
  IF MapHas(c, k) /\ t - MapGet(c, k).timestamp >= CACHE_TTL_MS
  THEN MapDelete(c, k) ELSE c

\* the cache after responseCache.get(cacheKey): get changes nothing
AfterLookup(c, k, t) == c

\* mutant: an entry exactly TTL old still counts as fresh
CacheHit_Inclusive(c, k, t) ==
  MapHas(c, k) /\ t - MapGet(c, k).timestamp <= CACHE_TTL_MS

CacheHit(c, k, t) == MapHas(c, k) /\ t - MapGet(c, k).timestamp < CACHE_TTL_MS

StoreInTime(c, k, reply, t) ==
  LET c1 == MapSet(c, k, reply, t)
  IN IF Len(c1) > CACHE_MAX THEN MapDelete(c1, c1[1].key) ELSE c1

\* mutant: the late continuation only logs
StoreLate_Drop(c, k, reply, t) == c

\* mutant: the late continuation leaves an entry that is already there
StoreLate_IfAbsent(c, k, reply, t) == IF MapHas(c, k) THEN c ELSE MapSet(c, k, reply, t)

StoreLate(c, k, reply, t) == MapSet(c, k, reply, t)

\* ---------------------------------------------------------------- Dedup Set
\* mutant: the dedup check is skipped
IsDuplicate_Never(msgId, seen) == FALSE

\* mutant: a MsgId whose generation failed may be tried again
IsDuplicate_UnlessFailed(msgId, seen) ==
  /\ Truthy(msgId) /\ msgId \in seen
  /\ ~\E r \in DOMAIN req : req[r].ev.MsgId = msgId /\ req[r].ai = "rejected"

IsDuplicate(msgId, seen) == Truthy(msgId) /\ msgId \in seen

\* mutant: every message is marked, with or without a MsgId
MarkSeen_Always(msgId, seen) == seen \cup {msgId}

\* if (msgId) { processedMsgIds.add(msgId); ... }
MarkSeen(msgId, seen) == IF Truthy(msgId) THEN seen \cup {msgId} ELSE seen

\* mutant: the removal is scheduled two windows ahead
ScheduleRemoval_Double(msgId, timers, t) ==
  IF Truthy(msgId) THEN timers \cup {[id |-> msgId, due |-> t + 2 * DEDUP_MS]}
  ELSE timers

\* if (msgId) { ...; setTimeout(() => processedMsgIds.delete(msgId), 60000) }
ScheduleRemoval(msgId, timers, t) ==
  IF Truthy(msgId) THEN timers \cup {[id |-> msgId, due |-> t + DEDUP_MS]}
  ELSE timers

\* ------------------------------------------------------- state, continued
Revs == {"cache", "push", "gate"}

Reqs == 1..NumReq

\* the resend runs take one submission more, one at a time
Slots == 1..(NumReq + 1)

StartNow == CACHE_TTL_MS

\* pc, timedOut, isResponseSent, attached, ai, timer: the handler's state;
\* the other fields record what the handler did (parsed: parseXML was called,
\* looked: responseCache.get was called, lookAge: the age of the entry it
\* returned or -1, checked: processedMsgIds.has was called, backend: what the
\* AI backend answered)
IdleReq ==
  [pc |-> "idle", ev |-> EvEmptyBody, resp |-> <<>>,
   ai |-> "none", reply |-> NoReply, gen |-> 0,
   timer |-> "none", timerDue |-> 0, timedOut |-> FALSE, isResponseSent |-> FALSE,
   attached |-> FALSE, outcome |-> "none", first |-> "none",
   cont |-> 0, lateStore |-> 0, oob |-> <<>>,
   at |-> 0, doneAt |-> 0, evAt |-> 0, evDone |-> 0,
   marked |-> FALSE, hit |-> FALSE, dup |-> FALSE,
   parsed |-> FALSE, looked |-> FALSE, lookAge |-> -1, checked |-> FALSE,
   backend |-> "none"]

\* ------------------------------------------------- GET / (server verification)
\* sha1([token, timestamp, nonce].sort().join('')): one digest per unordered
\* pair of timestamp and nonce (the token is fixed; collisions are left out)
Sha1(timestamp, nonce) ==
  <<"sha1", {Str(timestamp), Str(nonce)}, Str(timestamp) = Str(nonce)>>

Query(signature, timestamp, nonce, echostr) ==
  [signature |-> signature, timestamp |-> timestamp, nonce |-> nonce,
   echostr |-> echostr,
   sig |-> Str(signature) = Sha1(timestamp, nonce)]

\* the queries of the verification runs: each parameter absent, empty or set;
\* the signature is the digest of ("ts", "n"), of ("", "n"), or another string
Queries ==
  {Query(s, t, n, e) :
     s \in {UNDEF, <<"bad">>, Sha1(<<"ts">>, <<"n">>), Sha1(<<>>, <<"n">>)},
     t \in {UNDEF, <<>>, <<"ts">>},
     n \in {UNDEF, <<"n">>},
     e \in {UNDEF, <<"echo">>}}

NoVerify == [q |-> Query(UNDEF, UNDEF, UNDEF, UNDEF), resp |-> <<>>]

\* mutant: the presence of the three parameters is not checked
GetRoot_NoPresence(q) ==
  IF validateSignature(q) THEN Plain(200, Str(q.echostr))
  ELSE Plain(401, INVALID_SIGNATURE)

\* app.get('/'): the response to a verification request
GetRoot(q) ==
  IF Truthy(q.signature) /\ Truthy(q.timestamp) /\ Truthy(q.nonce)
     /\ validateSignature(q)
  THEN Plain(200, Str(q.echostr))
  ELSE Plain(401, INVALID_SIGNATURE)

\* no direct call is under way
NoCall == [to |-> <<>>, reply |-> NoReply, xml |-> NoBody, post |-> NoPost]

\* filler entries of a cache that has been in use: sender f00..f99, text x
Digits == <<"0", "1", "2", "3", "4", "5", "6", "7", "8", "9">>

FillerKey(i) == <<"f", Digits[(i \div 10) + 1], Digits[(i % 10) + 1], ":", "x">>

Filler(i, t) == [key |-> FillerKey(i), reply |-> TextReply(<<"old">>), timestamp |-> t]

\* caches the running server can hold when the observed requests start:
\* one entry for u:a that turns stale one deadline from now
OneEntryCache ==
  << [key |-> CacheKey(EvTextA), reply |-> TextReply(<<"old">>),
      timestamp |-> StartNow + TIMEOUT_MS - CACHE_TTL_MS] >>

\* a full cache whose oldest insertion is a stale entry for u:a
FullCache ==
  << [key |-> CacheKey(EvTextA), reply |-> TextReply(<<"old">>),
      timestamp |-> StartNow - CACHE_TTL_MS] >>
    \o [i \in 1..(CACHE_MAX - 1) |-> Filler(i, StartNow)]

InitCommon ==
  /\ now = StartNow
  /\ req = [r \in Slots |-> IdleReq]
  /\ processedMsgIds = {}
  /\ dedupTimers = {}
  /\ evictLog = <<>>
  /\ call = NoCall
  /\ verified = NoVerify

Init ==
  /\ rev \in Revs
  /\ InitCommon
  /\ responseCache \in (IF rev = "cache" THEN {<<>>, OneEntryCache} ELSE { <<>> })

\* the cache revision with a full cache
InitFull ==
  /\ rev = "cache"
  /\ InitCommon
  /\ responseCache = FullCache

\* ----------------------------------------------------------------- handler
Respond(rq, response) ==
  [rq EXCEPT !.resp = Append(@, response), !.pc = "done"]

\* sendCustomMessage(toUser, reply): the call is recorded, its network part
\* finishes in OobFinish
sendCustomMessage(rq, reply) ==
  [rq EXCEPT !.oob = Append(@, [to |-> rq.ev.FromUserName, reply |-> reply,
                                state |-> "calling", body |-> NoPost])]

\* Case A of the handler: the reply goes out in the HTTP response
CaseA(rq, winner, c) ==
  LET doc == replyToXml(rq.ev.FromUserName, rq.ev.ToUserName, winner, now)
      rq1 == [Respond(rq, Xml(doc)) EXCEPT !.outcome = "InTime",
                                           !.isResponseSent = (rev = "gate")]
  IN [rq |-> rq1,
      cache |-> IF rev = "cache" THEN StoreInTime(c, CacheKey(rq.ev), winner, now) ELSE c]

\* aiPromise.then(async (reply) => {...}).catch(...) of Case B, run with reply
LateContinuation(rq, reply, c) ==
  LET rq1 == [rq EXCEPT !.cont = @ + 1]
  IN IF reply = NoReply THEN [rq |-> rq1, cache |-> c]
     ELSE IF rev = "cache"
     THEN [rq |-> [rq1 EXCEPT !.lateStore = @ + 1],
           cache |-> StoreLate(c, CacheKey(rq.ev), reply, now)]
     ELSE [rq |-> sendCustomMessage(rq1, reply), cache |-> c]

\* mutant: the timeout branch aborts the task
CaseB_Abort(rq, c) ==
  [rq |-> [Respond(rq, Plain(200, SUCCESS)) EXCEPT !.outcome = "TimedOut",
                                                    !.isResponseSent = (rev = "gate"),
                                                    !.ai = "none"],
   cache |-> c]

\* mutant: the timeout branch caches the placeholder it sends
CaseB_CachePlaceholder(rq, c) ==
  LET placeholder ==
        IF rev = "cache"
        THEN Xml(replyToXml(rq.ev.FromUserName, rq.ev.ToUserName, timeoutReply, now))
        ELSE Plain(200, SUCCESS)
      rq1 == [Respond(rq, placeholder) EXCEPT !.outcome = "TimedOut",
                                              !.isResponseSent = (rev = "gate"),
                                              !.attached = (rev # "gate")]
      c1 == IF rev = "cache" THEN MapSet(c, CacheKey(rq.ev), timeoutReply, now) ELSE c
  IN IF rev # "gate" /\ rq1.ai = "resolved"
     THEN LateContinuation(rq1, rq1.reply, c1)
     ELSE [rq |-> rq1, cache |-> c1]

\* Case B of the handler: placeholder now, the task's result later
CaseB(rq, c) ==
  LET placeholder ==
        IF rev = "cache"
        THEN Xml(replyToXml(rq.ev.FromUserName, rq.ev.ToUserName, timeoutReply, now))
        ELSE Plain(200, SUCCESS)
      rq1 == [Respond(rq, placeholder) EXCEPT !.outcome = "TimedOut",
                                              !.isResponseSent = (rev = "gate"),
                                              !.attached = (rev # "gate")]
  IN IF rev # "gate" /\ rq1.ai = "resolved"
     THEN LateContinuation(rq1, rq1.reply, c)
     ELSE [rq |-> rq1, cache |-> c]

\* mutant: the timeout branch is always taken
IsCaseA_Never(rq, winner) == FALSE

\* the branch taken when await Promise.race(...) returns winner
IsCaseA(rq, winner) ==
  IF rev = "gate" THEN winner # NoReply
  ELSE ~rq.timedOut /\ winner # NoReply

\* mutant: the handler waits for the task alone
RaceResume_AwaitTask(rq, winner, c) ==
  IF winner = NoReply THEN [rq |-> rq, cache |-> c] ELSE CaseA(rq, winner, c)

RaceResume(rq, winner, c) ==
  IF IsCaseA(rq, winner) THEN CaseA(rq, winner, c) ELSE CaseB(rq, c)

\* mutant: a hit refreshes the entry's timestamp
CachedResponse_Touch(rq, c, key) ==
  [rq |-> Respond([rq EXCEPT !.hit = TRUE],
                  Xml(replyToXml(rq.ev.FromUserName, rq.ev.ToUserName,
                                 MapGet(c, key).reply, now))),
   cache |-> MapSet(c, key, MapGet(c, key).reply, now)]

\* the cache lookup found a fresh entry: its reply is the response
CachedResponse(rq, c, key) ==
  [rq |-> Respond([rq EXCEPT !.hit = TRUE],
                  Xml(replyToXml(rq.ev.FromUserName, rq.ev.ToUserName,
                                 MapGet(c, key).reply, now))),
   cache |-> c]

\* mutant: the catch block reports the failure
CatchBlock_Status500(rq, c) ==
  [rq |-> [Respond(rq, Plain(500, <<"Internal Server Error">>)) EXCEPT !.outcome = "Failed"],
   cache |-> c]

\* catch (error) { res.send('success') }
CatchBlock(rq, c) ==
  [rq |-> [Respond(rq, Plain(200, SUCCESS)) EXCEPT !.outcome = "Failed"], cache |-> c]

\* mutant: the gated continuation pushes the reply whatever isResponseSent says
OnResolved_NoGate(rq, reply, c) ==
  LET rq1 == [rq EXCEPT !.ai = "resolved", !.reply = reply, !.doneAt = now,
                        !.evDone = Len(evictLog),
                        !.first = IF @ = "none" THEN "task" ELSE @]
  IN IF rev = "gate"
     THEN LET rq2 == sendCustomMessage([rq1 EXCEPT !.cont = @ + 1], reply)
          IN IF rq2.pc = "racing" THEN RaceResume(rq2, reply, c)
             ELSE [rq |-> rq2, cache |-> c]
     ELSE IF rq1.pc = "racing" THEN RaceResume(rq1, reply, c)
     ELSE IF rq1.attached THEN LateContinuation(rq1, reply, c)
     ELSE [rq |-> rq1, cache |-> c]

\* the reaction(s) to processMessage resolving with reply
OnResolved(rq, reply, c) ==
  LET rq1 == [rq EXCEPT !.ai = "resolved", !.reply = reply, !.doneAt = now,
                        !.evDone = Len(evictLog),
                        !.first = IF @ = "none" THEN "task" ELSE @]
  IN IF rev = "gate"
     THEN \* .then(async (reply) => ...) attached when the task was created
          LET rq2 == [rq1 EXCEPT !.cont = @ + 1]
          IN IF ~rq2.isResponseSent
             THEN (IF rq2.pc = "racing" THEN RaceResume(rq2, reply, c)
                   ELSE [rq |-> rq2, cache |-> c])
             ELSE [rq |-> sendCustomMessage(rq2, reply), cache |-> c]
     ELSE IF rq1.pc = "racing" THEN RaceResume(rq1, reply, c)
     ELSE IF rq1.attached THEN LateContinuation(rq1, reply, c)
     ELSE [rq |-> rq1, cache |-> c]

\* the reaction(s) to processMessage rejecting
OnRejected(rq, c) ==
  LET rq1 == [rq EXCEPT !.ai = "rejected", !.doneAt = now,
                        !.first = IF @ = "none" THEN "task" ELSE @]
  IN IF rq1.pc = "racing" THEN CatchBlock(rq1, c) ELSE [rq |-> rq1, cache |-> c]

\* history: the keys of c that c2 no longer holds
RECURSIVE Dropped(_, _)
Dropped(c, c2) ==
  IF c = <<>> THEN <<>>
  ELSE (IF MapHas(c2, Head(c).key) THEN <<>> ELSE <<Head(c).key>>)
       \o Dropped(Tail(c), c2)

RemovedKeys(c, c2) ==
  IF c2 = c \/ Len(c2) > Len(c) THEN <<>> ELSE Dropped(c, c2)

\* app.post('/') from the signature guard up to await Promise.race (and past it
\* when the task's promise is already settled). parseXML runs the parser
\* synchronously, so the await on it yields to no other macrotask.
Receive(r, ev) ==
  /\ req[r].pc = "idle"
  /\ IF r = 1 THEN TRUE ELSE req[r - 1].pc # "idle"
  /\ LET rq0 == [IdleReq EXCEPT !.ev = ev, !.at = now, !.evAt = Len(evictLog)]
         key == CacheKey(ev)
         rqP == [rq0 EXCEPT !.parsed = TRUE]
         rqL == IF rev = "cache"
                THEN [rqP EXCEPT !.looked = TRUE,
                                 !.lookAge = IF MapHas(responseCache, key)
                                             THEN now - MapGet(responseCache, key).timestamp
                                             ELSE -1]
                ELSE rqP
         rqC == [rqL EXCEPT !.checked = Truthy(ev.MsgId)]
         cL == IF rev = "cache" THEN AfterLookup(responseCache, key, now)
               ELSE responseCache
     IN IF ~validateSignature(ev)
        THEN /\ req' = [req EXCEPT ![r] = Respond(rq0, Plain(401, INVALID_SIGNATURE))]
             /\ UNCHANGED <<processedMsgIds, dedupTimers, responseCache, evictLog>>
        ELSE IF ev.body = "empty"
        THEN /\ req' = [req EXCEPT ![r] = Respond(rq0, Plain(200, SUCCESS))]
             /\ UNCHANGED <<processedMsgIds, dedupTimers, responseCache, evictLog>>
        ELSE IF parseXML(ev) = "none"
        THEN /\ req' = [req EXCEPT ![r] = Respond(rqP, Plain(200, SUCCESS))]
             /\ UNCHANGED <<processedMsgIds, dedupTimers, responseCache, evictLog>>
        ELSE IF rev = "cache" /\ CacheHit(responseCache, key, now)
        THEN LET res == CachedResponse(rqL, responseCache, key)
             IN /\ req' = [req EXCEPT ![r] = res.rq]
                /\ responseCache' = res.cache
                /\ UNCHANGED <<processedMsgIds, dedupTimers, evictLog>>
        ELSE IF IsDuplicate(ev.MsgId, processedMsgIds)
        THEN /\ req' = [req EXCEPT ![r] = Respond([rqC EXCEPT !.dup = TRUE],
                                                  Plain(200, SUCCESS))]
             /\ responseCache' = cL
             /\ UNCHANGED <<processedMsgIds, dedupTimers, evictLog>>
        ELSE LET rq1 == [rqC EXCEPT !.marked = Truthy(ev.MsgId),
                                    !.gen = @ + 1, !.ai = "pending",
                                    !.timer = "pending", !.timerDue = now + TIMEOUT_MS,
                                    !.pc = "racing"]
                 res == CASE Immediate(ev) = "pending" -> [rq |-> rq1, cache |-> cL]
                          [] Immediate(ev) = "resolved" ->
                               OnResolved(rq1, TextReply(UNSUPPORTED), cL)
                          [] OTHER -> OnRejected(rq1, cL)
             IN /\ req' = [req EXCEPT ![r] = res.rq]
                /\ responseCache' = res.cache
                /\ evictLog' = evictLog \o RemovedKeys(responseCache, res.cache)
                /\ processedMsgIds' = MarkSeen(ev.MsgId, processedMsgIds)
                /\ dedupTimers' = ScheduleRemoval(ev.MsgId, dedupTimers, now)
  /\ UNCHANGED <<verified, call, rev, now>>

\* the AI backend answers: processMessage settles
AiSettle(r, result) ==
  /\ req[r].ai = "pending"
  /\ LET rq0 == [req[r] EXCEPT !.backend = result]
         res == IF result = "throw" THEN OnRejected(rq0, responseCache)
                ELSE OnResolved(rq0, processMessage(rev, result), responseCache)
     IN /\ req' = [req EXCEPT ![r] = res.rq]
        /\ responseCache' = res.cache
        /\ evictLog' = evictLog \o RemovedKeys(responseCache, res.cache)
  /\ UNCHANGED <<verified, call, rev, now, processedMsgIds, dedupTimers>>

\* setTimeout(..., CONFIG.TIMEOUT_MS) fires
TimerFire(r) ==
  /\ req[r].timer = "pending"
  /\ now >= req[r].timerDue
  /\ LET rq1 == [req[r] EXCEPT !.timer = "fired", !.timedOut = (rev # "gate"),
                               !.first = IF @ = "none" THEN "timer" ELSE @]
         res == IF rq1.pc = "racing" THEN RaceResume(rq1, NoReply, responseCache)
                ELSE [rq |-> rq1, cache |-> responseCache]
     IN /\ req' = [req EXCEPT ![r] = res.rq]
        /\ responseCache' = res.cache
        /\ evictLog' = evictLog \o RemovedKeys(responseCache, res.cache)
  /\ UNCHANGED <<verified, call, rev, now, processedMsgIds, dedupTimers>>

\* setTimeout(() => processedMsgIds.delete(msgId), 60000) fires
DedupExpire(t) ==
  /\ t \in dedupTimers
  /\ now >= t.due
  /\ processedMsgIds' = processedMsgIds \ {t.id}
  /\ dedupTimers' = dedupTimers \ {t}
  /\ UNCHANGED <<verified, call, rev, now, req, responseCache, evictLog>>

\* the network part of sendCustomMessage ends: no token, posted, or post failed
OobFinish(r, result) ==
  /\ \E i \in 1..Len(req[r].oob) :
        /\ req[r].oob[i].state = "calling"
        /\ req' = [req EXCEPT ![r].oob = OobSettle(@, i, result)]
  /\ UNCHANGED <<verified, call, rev, now, processedMsgIds, dedupTimers, responseCache, evictLog>>

\* time passes; a due timer fires before time moves on
Tick ==
  /\ now < StartNow + MaxTicks * TIMEOUT_MS
  /\ \A r \in Slots : req[r].timer = "pending" => req[r].timerDue > now
  /\ \A t \in dedupTimers : t.due > now
  /\ now' = now + TIMEOUT_MS
  /\ UNCHANGED <<verified, call, rev, req, processedMsgIds, dedupTimers, responseCache, evictLog>>

\* GET / is answered
Verify(q) ==
  /\ verified' = [q |-> q, resp |-> <<GetRoot(q)>>]
  /\ UNCHANGED <<call, rev, now, req, processedMsgIds, dedupTimers, responseCache,
                 evictLog>>

\* concurrent submissions, every revision
Next ==
  \/ \E r \in Reqs, ev \in Inputs : Receive(r, ev)
  \/ \E r \in Reqs, result \in BackendResults : AiSettle(r, result)
  \/ \E r \in Reqs : TimerFire(r)
  \/ \E t \in dedupTimers : DedupExpire(t)
  \/ \E r \in Reqs, result \in OobResults : OobFinish(r, result)
  \/ Tick

Spec == Init /\ [][Next]_vars

\* resends: the sender submits again only after the earlier task has settled
Quiet == \A q \in Slots : req[q].ai # "pending"

ReceiveResend(r, ev) == Quiet /\ Receive(r, ev)

NextResend ==
  \/ \E r \in Slots, ev \in FullInputs : ReceiveResend(r, ev)
  \/ \E r \in Slots, result \in ResendResults : AiSettle(r, result)
  \/ \E r \in Slots : TimerFire(r)
  \/ \E t \in dedupTimers : DedupExpire(t)
  \/ Tick

SpecResend == InitFull /\ [][NextResend]_vars

\* concurrent submissions to the cache revision with a full cache
NextFull ==
  \/ \E r \in Reqs, ev \in FullInputs : Receive(r, ev)
  \/ \E r \in Reqs, result \in BackendResults : AiSettle(r, result)
  \/ \E r \in Reqs : TimerFire(r)
  \/ \E t \in dedupTimers : DedupExpire(t)
  \/ Tick

SpecFull == InitFull /\ [][NextFull]_vars

\* the guards of the handler: submissions that fail authentication, have no
\* body or do not decode, next to a plain text
GuardInputs == {EvBadSig, EvEmptyBody, EvGarbage, EvOtherRoot, EvTextA}

\* the backend answers a text, fails inside chatWithAI (which returns its
\* apology), or answers a content that makes processMessage reject
GuardResults == {"r1", "error", "throw"}

NextGuards ==
  \/ \E r \in Reqs, ev \in GuardInputs : Receive(r, ev)
  \/ \E r \in Reqs, result \in GuardResults : AiSettle(r, result)
  \/ \E r \in Reqs : TimerFire(r)
  \/ \E t \in dedupTimers : DedupExpire(t)
  \/ \E r \in Reqs, result \in OobResults : OobFinish(r, result)
  \/ Tick

SpecGuards == Init /\ [][NextGuards]_vars

\* repeated deliveries: a text with a MsgId, an image message with an empty
\* MsgId and an event notification without MsgId
DedupInputs == {EvTextA, EvImage, EvSubscribe}

DedupResults == {"r1"}

NextDedup ==
  \/ \E r \in Slots, ev \in DedupInputs : Receive(r, ev)
  \/ \E r \in Slots, result \in DedupResults : AiSettle(r, result)
  \/ \E r \in Slots : TimerFire(r)
  \/ \E t \in dedupTimers : DedupExpire(t)
  \/ Tick

SpecDedup == Init /\ [][NextDedup]_vars

\* the cache revision starting with an empty cache: two texts of one sender
\* that are equal after trimming
InitCache ==
  /\ rev = "cache"
  /\ InitCommon
  /\ responseCache = <<>>

CacheInputs == {EvTextA, EvTextA2}

\* two different answers, a failed backend call (chatWithAI returns its
\* apology) and an answer that makes processMessage reject
CacheResults == {"r1", "r2", "error", "throw"}

NextCache ==
  \/ \E r \in Reqs, ev \in CacheInputs : Receive(r, ev)
  \/ \E r \in Reqs, result \in CacheResults : AiSettle(r, result)
  \/ \E r \in Reqs : TimerFire(r)
  \/ \E t \in dedupTimers : DedupExpire(t)
  \/ Tick

SpecCache == InitCache /\ [][NextCache]_vars

\* the cache revision with two different pictures of one sender
KeyInputs == {EvPhoto1, EvPhoto2}

KeyResults == {"r1", "r2"}

NextKeys ==
  \/ \E r \in Reqs, ev \in KeyInputs : Receive(r, ev)
  \/ \E r \in Reqs, result \in KeyResults : AiSettle(r, result)
  \/ \E r \in Reqs : TimerFire(r)
  \/ \E t \in dedupTimers : DedupExpire(t)
  \/ Tick

SpecKeys == InitCache /\ [][NextKeys]_vars

\* the order of a full cache: a text whose key stands first (stale) and a text
\* with a new key
OrderInputs == {EvTextA, EvTextB}

OrderResults == {"r1"}

NextOrder ==
  \/ \E r \in Reqs, ev \in OrderInputs : Receive(r, ev)
  \/ \E r \in Reqs, result \in OrderResults : AiSettle(r, result)
  \/ \E r \in Reqs : TimerFire(r)
  \/ \E t \in dedupTimers : DedupExpire(t)
  \/ Tick

SpecOrder == InitFull /\ [][NextOrder]_vars

\* verification requests while messages are being handled
VerifyInputs == {EvTextA}

VerifyResults == {"r1"}

NextVerify ==
  \/ \E q \in Queries : Verify(q)
  \/ \E r \in Reqs, ev \in VerifyInputs : Receive(r, ev)
  \/ \E r \in Reqs, result \in VerifyResults : AiSettle(r, result)
  \/ \E r \in Reqs : TimerFire(r)
  \/ \E t \in dedupTimers : DedupExpire(t)
  \/ Tick

SpecVerify == Init /\ [][NextVerify]_vars

\* direct calls of the two exported encoders with any WeChatReply the type
\* admits: type text or image, content and mediaId absent, empty or set
Replies ==
  [type : {"text", "image"},
   content : {UNDEF, <<>>, <<"hi">>},
   mediaId : {UNDEF, <<>>, <<"media1">>}]

Recipients == {<<"u">>, <<"v">>}

InitReply ==
  /\ rev = "push"
  /\ now = StartNow
  /\ req = [r \in Slots |-> IdleReq]
  /\ processedMsgIds = {}
  /\ dedupTimers = {}
  /\ responseCache = <<>>
  /\ evictLog = <<>>
  /\ call \in [to : Recipients, reply : Replies, xml : {NoBody}, post : {NoPost}]
  /\ verified = NoVerify

\* replyToXml(toUser, fromUser, reply)
CallReplyToXml ==
  /\ call.xml = NoBody
  /\ call' = [call EXCEPT !.xml = replyToXml(call.to, <<"gh">>, call.reply, now)]
  /\ UNCHANGED <<verified, rev, now, req, processedMsgIds, dedupTimers, responseCache,
                 evictLog>>

\* sendCustomMessage(toUser, reply) with an access token at hand
CallSendCustomMessage ==
  /\ call.post = NoPost
  /\ call' = [call EXCEPT !.post = CustomBody(call.to, call.reply)]
  /\ UNCHANGED <<verified, rev, now, req, processedMsgIds, dedupTimers, responseCache,
                 evictLog>>

NextReply == CallReplyToXml \/ CallSendCustomMessage

SpecReply == InitReply /\ [][NextReply]_vars

\* ------------------------------------------------------------- properties
Handled(r) == req[r].pc # "idle"

SameRequest(e1, e2) ==
  /\ e1.FromUserName = e2.FromUserName
  /\ Trim(IF Truthy(e1.Content) THEN e1.Content ELSE <<>>)
       = Trim(IF Truthy(e2.Content) THEN e2.Content ELSE <<>>)

SameEventId(r1, r2) ==
  /\ Handled(r1) /\ Handled(r2)
  /\ Truthy(req[r1].ev.MsgId)
  /\ req[r1].ev.MsgId = req[r2].ev.MsgId

\* the response is the neutral acknowledgement
IsSuccess(rq) == rq.resp = <<Plain(200, SUCCESS)>>

\* the response is the placeholder of the deployed revision
IsPlaceholder(rq) ==
  IF rev = "cache"
  THEN /\ Len(rq.resp) = 1
       /\ rq.resp[1].xml
       /\ rq.resp[1].doc.MsgType = "text"
       /\ rq.resp[1].doc.Content = TIMEOUT_TEXT
  ELSE IsSuccess(rq)

\* C1 (as stated): of two submissions of the same non-empty eventId less than
\* 60 s apart, the second one never invokes generation.
C1_Original ==
  \A r1, r2 \in Slots :
    (r1 < r2 /\ SameEventId(r1, r2) /\ req[r2].at - req[r1].at < DEDUP_MS)
      => req[r2].gen = 0

\* C1 (amended): of two submissions of the same non-empty eventId handled less
\* than 60 s apart at most one invokes generation, and one that does not is
\* answered with 'success' or with a cached reply.
C1_AtMostOnce ==
  \A r1, r2 \in Slots :
    (r1 < r2 /\ SameEventId(r1, r2) /\ req[r2].at - req[r1].at < DEDUP_MS)
      => /\ req[r1].gen + req[r2].gen <= 1
         /\ req[r1].marked => req[r2].gen = 0
         /\ \A r \in {r1, r2} :
              req[r].gen = 0 =>
                \/ IsSuccess(req[r])
                \/ req[r].hit /\ Len(req[r].resp) = 1 /\ req[r].resp[1].xml

C1_Witness ==
  \E r1, r2 \in Slots :
    /\ r1 < r2 /\ SameEventId(r1, r2)
    /\ req[r2].at - req[r1].at < DEDUP_MS
    /\ req[r1].gen = 1 /\ req[r2].dup /\ IsSuccess(req[r2])

\* C2: a submission that reached the race is answered when its deadline timer
\* fires at the latest, whether or not its generation task has completed.
C2_AnsweredByDeadline ==
  \A r \in Slots :
    req[r].gen >= 1 =>
      /\ req[r].pc = "racing" =>
           /\ req[r].timer = "pending"
           /\ now <= req[r].timerDue
           /\ req[r].timerDue = req[r].at + TIMEOUT_MS
      /\ req[r].timer = "fired" => req[r].pc = "done" /\ Len(req[r].resp) = 1
      /\ req[r].pc = "done" => Len(req[r].resp) = 1 /\ req[r].resp[1].status = 200

C2_Witness ==
  \E r \in Slots :
    /\ req[r].timer = "fired" /\ req[r].ai = "pending"
    /\ Len(req[r].resp) = 1 /\ now = req[r].at + TIMEOUT_MS

\* C3 (as stated): every event that reached the race ends in exactly one of
\* InTime and TimedOut with exactly one response, InTime iff the task settled
\* before the timer fired.
C3_Original ==
  \A r \in Slots :
    (req[r].gen >= 1 /\ req[r].pc = "done") =>
      /\ req[r].outcome \in {"InTime", "TimedOut"}
      /\ Len(req[r].resp) = 1
      /\ req[r].outcome = "InTime" <=> req[r].first = "task"

\* C4: a reply generated before the deadline goes out in the synchronous
\* response and has no background effect; sendCustomMessage is called only for
\* events whose race was lost.
C4_InTimeNoBackground ==
  \A r \in Slots :
    /\ (req[r].first = "task" /\ req[r].ai = "resolved") =>
         /\ req[r].resp = <<Xml(replyToXml(req[r].ev.FromUserName, req[r].ev.ToUserName,
                                           req[r].reply, req[r].doneAt))>>
         /\ req[r].oob = <<>>
         /\ req[r].lateStore = 0
    /\ req[r].oob # <<>> => req[r].first = "timer" /\ req[r].outcome = "TimedOut"

C4_Witness ==
  \E r \in Slots :
    /\ req[r].first = "task" /\ req[r].ai = "resolved"
    /\ req[r].timer = "fired"
    /\ req[r].outcome = "InTime" /\ req[r].oob = <<>>

C6_NeverCancelled ==
  [][\A r \in Slots :
       /\ req[r].ai = "pending" =>
            /\ req'[r].ai \in {"pending", "resolved", "rejected"}
            /\ req'[r].gen = req[r].gen
            /\ req'[r].ai # "pending" => req'[r].doneAt = now
       /\ req'[r].gen >= 1 => req'[r].ai # "none"]_vars

C6_Witness ==
  \E r1, r2 \in Slots :
    /\ r1 # r2 /\ SameEventId(r1, r2) /\ req[r2].dup
    /\ req[r1].outcome = "TimedOut" /\ req[r1].timer = "fired"
    /\ req[r1].ai = "resolved" /\ req[r1].cont = 1

\* C7 (as stated): right after a handler ends in time, the cache maps the
\* event's key to the generated reply.
C7_Original ==
  [][\A r \in Slots :
       (rev = "cache" /\ req[r].outcome = "none" /\ req'[r].outcome = "InTime") =>
         /\ MapHas(responseCache', CacheKey(req'[r].ev))
         /\ MapGet(responseCache', CacheKey(req'[r].ev)).reply = req'[r].reply]_vars

\* the resend of C8: r1 timed out and completed late, r3 is a later submission
\* of the same sender and trimmed text within TTL of the completion, and no
\* other generation for that request completed in between
Resend(r1, r3) ==
  /\ r1 < r3 /\ Handled(r3)
  /\ req[r1].first = "timer" /\ req[r1].ai = "resolved"
  /\ SameRequest(req[r1].ev, req[r3].ev)
  /\ req[r3].at - req[r1].doneAt < CACHE_TTL_MS
  /\ \A q \in Slots :
       (r1 < q /\ q < r3 /\ SameRequest(req[q].ev, req[r1].ev)) => req[q].ai # "resolved"

AnsweredWith(r3, r1) ==
  /\ req[r3].gen = 0
  /\ req[r3].resp = <<Xml(replyToXml(req[r3].ev.FromUserName, req[r3].ev.ToUserName,
                                     req[r1].reply, req[r3].at))>>

\* no capacity eviction removed r1's entry between its late store and r3
NotEvictedBetween(r1, r3) ==
  \A i \in (req[r1].evDone + 1)..req[r3].evAt : evictLog[i] # CacheKey(req[r1].ev)

\* C8 (as stated): the resend is answered with the late reply and invokes no
\* generation.
C8_Original ==
  \A r1, r3 \in Slots : Resend(r1, r3) => AnsweredWith(r3, r1)

\* C8 (amended): the resend is answered with the late reply and invokes no
\* generation, provided the capacity rule has not evicted the entry in between.
C8_ResendHits ==
  \A r1, r3 \in Slots :
    (Resend(r1, r3) /\ NotEvictedBetween(r1, r3)) => AnsweredWith(r3, r1)

C8_Witness ==
  \E r1, r3 \in Slots :
    /\ Resend(r1, r3) /\ NotEvictedBetween(r1, r3)
    /\ req[r1].ev.MsgId # req[r3].ev.MsgId
    /\ req[r1].ev.Content # req[r3].ev.Content
    /\ req[r3].hit /\ AnsweredWith(r3, r1)

\* C9 (as stated): the cache never holds more than its capacity.
C9_Original == Len(responseCache) <= CACHE_MAX

Keys(c) == {c[i].key : i \in 1..Len(c)}

\* C10 (as stated): a store that makes the cache exceed its capacity evicts
\* exactly one entry, the least recently stored one, and a store removes
\* nothing else.
C10_Original ==
  [][responseCache' # responseCache =>
       LET c == responseCache
           c2 == responseCache'
           after == Keys(c) \cup Keys(c2)
       IN IF Cardinality(after) > CACHE_MAX
          THEN \E k \in Keys(c) :
                 /\ after \ Keys(c2) = {k}
                 /\ \A j \in 1..Len(c2) : MapGet(c, k).timestamp <= c2[j].timestamp
          ELSE Keys(c) \subseteq Keys(c2)]_vars

\* C11: a cache lookup answers with the cached reply only when the entry is
\* younger than the TTL (now - timestamp < 300000 ms); when the entry is exactly
\* TTL old or older the lookup treats it as absent and the request goes on to
\* the dedup check and, unless it is a duplicate, to generation.
C11_FreshOnly ==
  \A r \in Slots :
    (Handled(r) /\ req[r].looked) =>
      /\ req[r].hit => (req[r].lookAge >= 0 /\ req[r].lookAge < CACHE_TTL_MS)
      /\ req[r].lookAge >= CACHE_TTL_MS =>
           /\ ~req[r].hit
           /\ req[r].checked = Truthy(req[r].ev.MsgId)
           /\ req[r].dup \/ req[r].gen = 1

\* a lookup made exactly TTL after the store went on to generation
C11_Witness ==
  \E r \in Slots :
    /\ Handled(r) /\ req[r].looked
    /\ req[r].lookAge = CACHE_TTL_MS
    /\ req[r].gen = 1

\* a decodable, authenticated submission
Decodable(ev) == validateSignature(ev) /\ ev.body # "empty" /\ parseXML(ev) = "message"

\* request r is handled in this step
Arrives(r) == req[r].pc = "idle" /\ req'[r].pc # "idle"

\* C12: when the Response Cache holds an entry younger than the TTL for the
\* key of an arriving event, the handler answers at once with the cached
\* reply, before the dedup check: no generation, no deadline timer, the
\* eventId is not marked seen and the cache is left as it was.
C12_HitBypasses ==
  [][\A r \in Slots :
       LET ev == req'[r].ev
           key == CacheKey(ev)
       IN (/\ Arrives(r)
           /\ rev = "cache"
           /\ Decodable(ev)
           /\ MapHas(responseCache, key)
           /\ now - MapGet(responseCache, key).timestamp < CACHE_TTL_MS)
          => /\ req'[r].pc = "done"
             /\ req'[r].resp = <<Xml(replyToXml(ev.FromUserName, ev.ToUserName,
                                                MapGet(responseCache, key).reply, now))>>
             /\ req'[r].gen = 0 /\ req'[r].ai = "none"
             /\ req'[r].timer = "none"
             /\ ~req'[r].checked /\ ~req'[r].marked /\ ~req'[r].dup
             /\ responseCache' = responseCache
             /\ processedMsgIds' = processedMsgIds
             /\ dedupTimers' = dedupTimers]_vars

\* a submission with a MsgId was answered from the cache and its MsgId is not
\* in the dedup set
C12_Witness ==
  \E r \in Slots :
    /\ Handled(r) /\ req[r].hit
    /\ Truthy(req[r].ev.MsgId)
    /\ req[r].ev.MsgId \notin processedMsgIds
    /\ req[r].gen = 0

\* the sender got text c: in the HTTP response, in a custom message, or in the
\* cache entry a resend is answered from
Received(r, c) ==
  \/ \E i \in 1..Len(req[r].resp) :
        req[r].resp[i].xml /\ req[r].resp[i].doc.Content = c
  \/ \E i \in 1..Len(req[r].oob) : req[r].oob[i].reply.content = c
  \/ /\ rev = "cache"
     /\ MapHas(responseCache, CacheKey(req[r].ev))
     /\ MapGet(responseCache, CacheKey(req[r].ev)).reply.content = c

\* C13 (as stated): when the generation task of an event has failed, the sender
\* receives the generic apology text, in the response when the failure came
\* before the deadline and through the late path when it came after.
C13_Original ==
  \A r \in Slots :
    (Handled(r) /\ req[r].ai = "rejected") => Received(r, APOLOGY)

\* C14: an authenticated submission is never answered with a non-success
\* status, whatever fails inside (empty body, decode failure, generation
\* rejecting, delivery failing): an internal error met before the response is
\* answered with the plain acknowledgement 'success'; a failed signature check
\* is the only path to a non-success status.
C14_SuccessShaped ==
  \A r \in Slots :
    Handled(r) =>
      LET rq == req[r]
      IN /\ Len(rq.resp) <= 1
         /\ \A i \in 1..Len(rq.resp) :
              /\ rq.resp[i].status \in {200, 401}
              /\ rq.resp[i].status = 401 <=> ~validateSignature(rq.ev)
         /\ (/\ validateSignature(rq.ev)
             /\ \/ rq.ev.body = "empty"
                \/ parseXML(rq.ev) = "none"
                \/ rq.outcome = "Failed")
            => IsSuccess(rq)

\* a generation that rejected before the deadline was answered 'success', and
\* another submission failed the signature check
C14_Witness ==
  \E r1, r2 \in Slots :
    /\ Handled(r1) /\ req[r1].ai = "rejected" /\ req[r1].outcome = "Failed"
    /\ IsSuccess(req[r1])
    /\ Handled(r2) /\ ~validateSignature(req[r2].ev)
    /\ req[r2].resp = <<Plain(401, INVALID_SIGNATURE)>>

\* C15: a submission whose signature does not validate is answered 401
\* 'Invalid Signature' in the same step and nothing else happens then or later:
\* no decoding, no cache lookup, no dedup check or mark, no generation, no
\* timer, no custom message; the dedup set, its timers and the cache stay as
\* they were.
C15_RejectedUntouched ==
  [][\A r \in Slots :
       /\ (Arrives(r) /\ ~req'[r].ev.sig)
          => /\ req'[r].pc = "done"
             /\ req'[r].resp = <<Plain(401, INVALID_SIGNATURE)>>
             /\ ~req'[r].parsed /\ ~req'[r].looked /\ ~req'[r].checked
             /\ ~req'[r].marked /\ ~req'[r].hit /\ ~req'[r].dup
             /\ req'[r].gen = 0 /\ req'[r].ai = "none"
             /\ req'[r].timer = "none" /\ req'[r].oob = <<>>
             /\ responseCache' = responseCache
             /\ processedMsgIds' = processedMsgIds
             /\ dedupTimers' = dedupTimers
       /\ (Handled(r) /\ ~req[r].ev.sig) => req'[r] = req[r]]_vars

\* a submission with MsgId m1 was rejected with 401, and a later authentic
\* submission with the same MsgId was generated for: the rejected one left no
\* mark
C15_Witness ==
  \E r1, r2 \in Slots :
    /\ r1 < r2
    /\ Handled(r1) /\ ~req[r1].ev.sig
    /\ req[r1].resp = <<Plain(401, INVALID_SIGNATURE)>>
    /\ Handled(r2) /\ req[r2].ev.sig
    /\ req[r2].ev.MsgId = req[r1].ev.MsgId
    /\ req[r2].gen = 1

\* C16: for an event whose MsgId is empty or absent the dedup set is neither
\* read nor written and no removal timer is scheduled; unless the cache
\* answers it, the submission invokes generation, also when the same event
\* was submitted just before.
C16_NoIdNoDedup ==
  [][\A r \in Slots :
       (Arrives(r) /\ Decodable(req'[r].ev) /\ ~Truthy(req'[r].ev.MsgId))
       => /\ ~req'[r].checked /\ ~req'[r].dup /\ ~req'[r].marked
          /\ processedMsgIds' = processedMsgIds
          /\ dedupTimers' = dedupTimers
          /\ ~req'[r].hit => req'[r].gen = 1]_vars

\* the same event without MsgId was submitted twice at the same instant and
\* generation was invoked for both
C16_Witness ==
  \E r1, r2 \in Slots :
    /\ r1 < r2
    /\ Handled(r1) /\ Handled(r2)
    /\ req[r1].ev = req[r2].ev
    /\ Decodable(req[r1].ev) /\ ~Truthy(req[r1].ev.MsgId)
    /\ req[r1].at = req[r2].at
    /\ req[r1].gen = 1 /\ req[r2].gen = 1
    /\ processedMsgIds = {} /\ dedupTimers = {}

\* the requests that marked id and whose retention window is still running
Marks(id) ==
  {r \in Slots : /\ Handled(r) /\ req[r].marked /\ req[r].ev.MsgId = id
                 /\ [id |-> id, due |-> req[r].at + DEDUP_MS] \in dedupTimers}

\* every dedup entry has one removal timer, due one window after the request
\* that marked it, and is not kept past that instant; duplicates schedule none
WindowFromFirstMark ==
  /\ \A id \in processedMsgIds :
       /\ Cardinality({t \in dedupTimers : t.id = id}) = 1
       /\ Cardinality(Marks(id)) = 1
  /\ \A t \in dedupTimers : t.id \in processedMsgIds /\ now <= t.due
  /\ \A r \in Slots :
       /\ (Handled(r) /\ req[r].marked /\ now < req[r].at + DEDUP_MS)
          => req[r].ev.MsgId \in processedMsgIds
       /\ (Handled(r) /\ req[r].dup)
          => /\ ~req[r].marked /\ req[r].gen = 0
             /\ \E r1 \in Slots :
                  /\ Handled(r1) /\ req[r1].marked
                  /\ req[r1].ev.MsgId = req[r].ev.MsgId
                  /\ req[r1].at <= req[r].at
                  /\ req[r].at <= req[r1].at + DEDUP_MS

\* C17: a dedup entry is removed exactly 60 s after the MsgId was marked,
\* whatever duplicates were checked against it meanwhile (they schedule no
\* timer and move no deadline); once it is removed, a submission with that
\* MsgId that misses the cache is new again: generation runs and the MsgId is
\* marked for another window.
C17_RemovedAfterWindow ==
  [][/\ WindowFromFirstMark'
     /\ \A id \in processedMsgIds \ processedMsgIds' :
          \E r \in Slots :
            /\ req[r].marked /\ req[r].ev.MsgId = id
            /\ now = req[r].at + DEDUP_MS
     /\ \A r \in Slots :
          (/\ Arrives(r) /\ Decodable(req'[r].ev) /\ Truthy(req'[r].ev.MsgId)
           /\ ~req'[r].hit
           /\ \A t \in dedupTimers : t.id # req'[r].ev.MsgId)
          => /\ req'[r].gen = 1 /\ req'[r].marked
             /\ [id |-> req'[r].ev.MsgId, due |-> now + DEDUP_MS] \in dedupTimers'
    ]_vars

\* marked, then a duplicate delivery, then removed one window after the mark,
\* then the same MsgId once more: generated again
C17_Witness ==
  \E r1, r2, r3 \in Slots :
    /\ r1 < r2 /\ r2 < r3
    /\ Handled(r1) /\ Handled(r2) /\ Handled(r3)
    /\ req[r1].ev.MsgId = req[r2].ev.MsgId
    /\ req[r1].ev.MsgId = req[r3].ev.MsgId
    /\ req[r1].marked
    /\ req[r2].dup /\ req[r2].at > req[r1].at
    /\ req[r3].at = req[r1].at + DEDUP_MS
    /\ req[r3].gen = 1 /\ req[r3].marked

\* C17 (as stated): once the entry of a MsgId has been removed, every further
\* submission with that MsgId invokes generation.
C17_Original ==
  [][\A r \in Slots :
       (/\ Arrives(r) /\ Decodable(req'[r].ev) /\ Truthy(req'[r].ev.MsgId)
        /\ \E r1 \in Slots : req[r1].marked /\ req[r1].ev.MsgId = req'[r].ev.MsgId
        /\ \A t \in dedupTimers : t.id # req'[r].ev.MsgId)
       => req'[r].gen = 1]_vars

\* C18: an authenticated submission with an empty body, a body that does not
\* parse, or one that parses to something without an xml root is answered
\* 'success' in the same step and nothing else happens then or later: no cache
\* lookup, no dedup check or mark, no generation, no timer; the dedup set, its
\* timers and the cache stay as they were.
C18_UndecodableAcked ==
  [][\A r \in Slots :
       /\ (Arrives(r) /\ req'[r].ev.sig /\ req'[r].ev.body # "xml")
          => /\ req'[r].pc = "done"
             /\ req'[r].resp = <<Plain(200, SUCCESS)>>
             /\ req'[r].parsed = (req'[r].ev.body # "empty")
             /\ ~req'[r].looked /\ ~req'[r].checked
             /\ ~req'[r].marked /\ ~req'[r].hit /\ ~req'[r].dup
             /\ req'[r].gen = 0 /\ req'[r].ai = "none"
             /\ req'[r].timer = "none" /\ req'[r].oob = <<>>
             /\ responseCache' = responseCache
             /\ processedMsgIds' = processedMsgIds
             /\ dedupTimers' = dedupTimers
       /\ (Handled(r) /\ req[r].ev.sig /\ req[r].ev.body # "xml")
          => req'[r] = req[r]]_vars

\* while an earlier message is being generated for, a body that does not
\* decode was acknowledged
C18_Witness ==
  \E r1, r2 \in Slots :
    /\ Handled(r1) /\ req[r1].marked /\ req[r1].ai = "pending"
    /\ Handled(r2) /\ req[r2].ev.sig
    /\ req[r2].ev.body \in {"garbage", "otherroot"}
    /\ req[r2].parsed
    /\ IsSuccess(req[r2])
    /\ processedMsgIds # {}

\* the custom message of request r ends in failure in this step
DeliveryFails(r) ==
  \E i \in 1..Len(req[r].oob) :
    /\ req[r].oob[i].state = "calling"
    /\ req'[r].oob[i].state \in {"failed", "notoken"}

\* C19: sendCustomMessage is called at most once per event; when it fails (no
\* access token, or the post fails) that is the end of it: no second attempt,
\* nothing posted without a token, and the failure changes nothing else: the
\* response already sent, the settled task, the dedup set and the cache are as
\* before.
C19_DeliveryFailureTerminal ==
  [][\A r \in Slots :
       /\ Len(req'[r].oob) <= 1
       /\ \A i \in 1..Len(req[r].oob) :
            req[r].oob[i].state \in {"failed", "notoken"}
            => req'[r].oob = req[r].oob
       /\ DeliveryFails(r)
          => /\ [req' EXCEPT ![r].oob = req[r].oob] = req
             /\ Len(req'[r].oob) = Len(req[r].oob)
             /\ \A i \in 1..Len(req'[r].oob) :
                  req'[r].oob[i].state = "notoken" => req'[r].oob[i].body = NoPost
             /\ responseCache' = responseCache
             /\ processedMsgIds' = processedMsgIds
             /\ dedupTimers' = dedupTimers]_vars

\* a late reply was handed to sendCustomMessage and the post failed
C19_Witness ==
  \E r \in Slots :
    /\ Handled(r) /\ req[r].outcome = "TimedOut"
    /\ IsSuccess(req[r])
    /\ req[r].ai = "resolved"
    /\ Len(req[r].oob) = 1
    /\ req[r].oob[1].state = "failed"
    /\ req[r].oob[1].body = CustomBody(req[r].ev.FromUserName, req[r].reply)

\* the reply handed to the encoders is an image without a media id
ImageWithoutMedia(reply) == reply.type = "image" /\ ~Truthy(reply.mediaId)

C21_EchoOnlyAuthenticated ==
  [][verified' # verified
     => LET q == verified'.q
            ok == /\ Truthy(q.signature) /\ Truthy(q.timestamp) /\ Truthy(q.nonce)
                  /\ q.signature = Sha1(q.timestamp, q.nonce)
        IN /\ verified'.resp = <<IF ok THEN Plain(200, Str(q.echostr))
                                  ELSE Plain(401, INVALID_SIGNATURE)>>
           /\ processedMsgIds' = processedMsgIds
           /\ dedupTimers' = dedupTimers
           /\ responseCache' = responseCache
           /\ req' = req]_vars

\* with a message marked and an entry in the cache, a request whose signature
\* matches an empty timestamp was rejected
C21_Witness ==
  /\ verified.resp = <<Plain(401, INVALID_SIGNATURE)>>
  /\ verified.q.signature = Sha1(verified.q.timestamp, verified.q.nonce)
  /\ ~Truthy(verified.q.timestamp)
  /\ processedMsgIds # {}
  /\ responseCache # <<>>

\* the reply went out in the HTTP response of request r
SentInResponse(r) ==
  req[r].resp = <<Xml(replyToXml(req[r].ev.FromUserName, req[r].ev.ToUserName,
                                 req[r].reply, req[r].doneAt))>>

\* the reply went to sendCustomMessage, once
SentOutOfBand(r) ==
  /\ Len(req[r].oob) = 1
  /\ req[r].oob[1].to = req[r].ev.FromUserName
  /\ req[r].oob[1].reply = req[r].reply

\* C22: in the revision gated by isResponseSent, whichever of the task and the
\* timer comes first, a reply the task produced goes either into the HTTP
\* response or to sendCustomMessage, never both and never neither, and the
\* continuation attached to the task has run exactly once (not at all while
\* the task is pending).
C22_ExactlyOneChannel ==
  rev = "gate" =>
    \A r \in Slots :
      Handled(r) =>
        /\ req[r].ai = "resolved"
           => /\ req[r].cont = 1
              /\ \/ /\ req[r].outcome = "InTime"
                    /\ SentInResponse(r) /\ req[r].oob = <<>>
                 \/ /\ req[r].outcome = "TimedOut"
                    /\ IsSuccess(req[r]) /\ SentOutOfBand(r)
        /\ req[r].ai # "resolved" => (req[r].cont = 0 /\ req[r].oob = <<>>)

\* one reply came in time and went into the response, another came after the
\* timer and went to sendCustomMessage
C22_Witness ==
  /\ rev = "gate"
  /\ \E r1, r2 \in Slots :
       /\ Handled(r1) /\ req[r1].ai = "resolved" /\ req[r1].outcome = "InTime"
       /\ SentInResponse(r1)
       /\ Handled(r2) /\ req[r2].ai = "resolved" /\ req[r2].outcome = "TimedOut"
       /\ SentOutOfBand(r2)

\* the key the claim gives a message without text: sender and ':'
TextlessKey(ev) == ev.FromUserName \o <<":">>

\* C23: a message without text gets the cache key sender + ':' whatever else
\* it carries: its reply is stored under that key, and a later text-less
\* message of the same sender that finds the entry younger than the TTL (a
\* different picture included) is answered with the stored reply and no
\* generation runs.
C23_TextlessShareKey ==
  [][\A r \in Slots :
       LET ev == req'[r].ev
           key == TextlessKey(ev)
       IN /\ (/\ Arrives(r) /\ rev = "cache"
              /\ Decodable(ev) /\ ~Truthy(ev.Content)
              /\ MapHas(responseCache, key)
              /\ now - MapGet(responseCache, key).timestamp < CACHE_TTL_MS)
             => /\ req'[r].hit /\ req'[r].gen = 0
                /\ req'[r].resp =
                     <<Xml(replyToXml(ev.FromUserName, ev.ToUserName,
                                      MapGet(responseCache, key).reply, now))>>
          /\ (/\ rev = "cache" /\ Handled(r) /\ ~Truthy(req[r].ev.Content)
              /\ req[r].ai = "pending" /\ req'[r].ai = "resolved")
             => /\ MapHas(responseCache', key)
                /\ MapGet(responseCache', key).reply = req'[r].reply
                /\ MapGet(responseCache', key).timestamp = now]_vars

\* the reply generated for one picture answered the submission of another
\* picture by the same sender
C23_Witness ==
  \E r1, r2 \in Slots :
    /\ Handled(r1) /\ Handled(r2)
    /\ req[r1].ev.MsgType = "image" /\ req[r2].ev.MsgType = "image"
    /\ req[r1].ev.FromUserName = req[r2].ev.FromUserName
    /\ req[r1].ev.PicUrl # req[r2].ev.PicUrl
    /\ req[r1].ev.MsgId # req[r2].ev.MsgId
    /\ req[r1].gen = 1 /\ req[r1].ai = "resolved"
    /\ req[r2].hit /\ req[r2].gen = 0
    /\ req[r2].resp = <<Xml(replyToXml(req[r2].ev.FromUserName, req[r2].ev.ToUserName,
                                       req[r1].reply, req[r2].at))>>

\* the generation of request r has failed or missed the deadline
FailedOrLate(rq) ==
  rq.ai = "rejected" \/ rq.outcome \in {"TimedOut", "Failed"}

\* C24: a mark is never taken back by the handler: an entry leaves the dedup
\* set only when its 60 s timer fires, also after the generation of the event
\* has rejected, has missed the deadline or has ended in the catch block; a
\* redelivery of the MsgId inside the window that the cache does not answer is
\* acknowledged with 'success' and generation is not tried again.
C24_MarkNotRolledBack ==
  [][/\ \A id \in processedMsgIds \ processedMsgIds' :
          /\ \E t \in dedupTimers : t.id = id /\ now >= t.due /\ t \notin dedupTimers'
          /\ req' = req
     /\ \A r \in Slots :
          (/\ Arrives(r) /\ Decodable(req'[r].ev) /\ Truthy(req'[r].ev.MsgId)
           /\ ~req'[r].hit
           /\ \E r1 \in Slots :
                /\ req[r1].marked /\ req[r1].ev.MsgId = req'[r].ev.MsgId
                /\ now < req[r1].at + DEDUP_MS
                /\ FailedOrLate(req[r1]))
          => /\ req'[r].dup /\ req'[r].gen = 0
             /\ req'[r].resp = <<Plain(200, SUCCESS)>>
             /\ processedMsgIds' = processedMsgIds]_vars

\* the generation of a marked event rejected and the handler answered from
\* its catch block; the same MsgId came again and was acknowledged only
C24_Witness ==
  \E r1, r2 \in Slots :
    /\ r1 < r2
    /\ Handled(r1) /\ req[r1].marked
    /\ req[r1].ai = "rejected" /\ req[r1].outcome = "Failed"
    /\ Handled(r2) /\ req[r2].ev.MsgId = req[r1].ev.MsgId
    /\ req[r2].at >= req[r1].doneAt
    /\ req[r2].at < req[r1].at + DEDUP_MS
    /\ req[r2].dup /\ req[r2].gen = 0 /\ IsSuccess(req[r2])

\* C25: every entry of the Response Cache holds, under the key of the event,
\* the reply a completed processMessage returned for it, stamped with the time
\* it completed; the timeout placeholder, the 'success' acknowledgement and a
\* rejected generation never write the cache.
C25_OnlyGeneratedReplies ==
  \A i \in 1..Len(responseCache) :
    LET e == responseCache[i]
    IN /\ e.reply # timeoutReply
       /\ e.reply # NoReply
       /\ \E r \in Slots :
            /\ Handled(r) /\ req[r].ai = "resolved"
            /\ CacheKey(req[r].ev) = e.key
            /\ req[r].reply = e.reply
            /\ req[r].doneAt = e.timestamp

\* one event timed out and its late reply is what the cache holds, while the
\* generation of another event with the same key rejected afterwards
C25_Witness ==
  \E r1, r2 \in Slots :
    /\ Handled(r1) /\ req[r1].outcome = "TimedOut" /\ req[r1].lateStore = 1
    /\ Handled(r2) /\ req[r2].ai = "rejected"
    /\ req[r2].doneAt >= req[r1].doneAt
    /\ CacheKey(req[r1].ev) = CacheKey(req[r2].ev)
    /\ Len(responseCache) = 1
    /\ responseCache[1].key = CacheKey(req[r1].ev)
    /\ responseCache[1].reply = req[r1].reply

\* C26: when the call to the AI backend fails, processMessage resolves with
\* the apology text of the AI client as its reply; the handler stores it in
\* the Response Cache under the event's key like any reply, and a request
\* with the same key that finds it younger than the TTL is answered with the
\* apology without a new generation.
C26_ApologyCached ==
  [][\A r \in Slots :
       LET ev == req'[r].ev
           key == CacheKey(ev)
       IN /\ (/\ rev = "cache" /\ req[r].ai = "pending"
              /\ req'[r].backend = "error")
             => /\ req'[r].ai = "resolved"
                /\ req'[r].reply = TextReply(APOLOGY)
                /\ MapHas(responseCache', key)
                /\ MapGet(responseCache', key).reply = TextReply(APOLOGY)
                /\ MapGet(responseCache', key).timestamp = now
          /\ (/\ Arrives(r) /\ rev = "cache" /\ Decodable(ev)
              /\ MapHas(responseCache, key)
              /\ MapGet(responseCache, key).reply = TextReply(APOLOGY)
              /\ now - MapGet(responseCache, key).timestamp < CACHE_TTL_MS)
             => /\ req'[r].gen = 0
                /\ req'[r].resp =
                     <<Xml(buildTextResponse(ev.FromUserName, ev.ToUserName,
                                             APOLOGY, now))>>]_vars

\* the backend call of one request failed; a later request of the same sender
\* with the same trimmed text was answered with the apology from the cache
C26_Witness ==
  \E r1, r2 \in Slots :
    /\ Handled(r1) /\ req[r1].backend = "error" /\ req[r1].gen = 1
    /\ Handled(r2) /\ req[r2].hit /\ req[r2].gen = 0
    /\ req[r2].ev.MsgId # req[r1].ev.MsgId
    /\ CacheKey(req[r2].ev) = CacheKey(req[r1].ev)
    /\ req[r2].at >= req[r1].doneAt
    /\ Len(req[r2].resp) = 1
    /\ req[r2].resp[1].doc.Content = APOLOGY

\* C26 (as stated): after a failed backend call the apology answers every
\* identical request for the next TTL: during that time the cache holds the
\* apology under the event's key.
C26_Original ==
  \A r \in Slots :
    (/\ rev = "cache" /\ Handled(r)
     /\ req[r].backend = "error" /\ req[r].ai = "resolved"
     /\ now - req[r].doneAt < CACHE_TTL_MS)
    => /\ MapHas(responseCache, CacheKey(req[r].ev))
       /\ MapGet(responseCache, CacheKey(req[r].ev)).reply = TextReply(APOLOGY)

\* the keys of a cache in eviction order
KeySeq(c) == [i \in 1..Len(c) |-> c[i].key]

\* C27: a store to a key the cache already holds replaces reply and timestamp
\* where the key stands; a new key goes to the end; the capacity cleanup takes
\* the key that stands first. The order is therefore that of first insertion,
\* and the entry taken can be newer than entries that stay.
C27_OverwriteKeepsPosition ==
  [][responseCache' # responseCache
     => LET c == responseCache
            c2 == responseCache'
        IN \E r \in Slots :
             LET k == CacheKey(req'[r].ev)
                 stored == IF MapHas(c, k) THEN KeySeq(c) ELSE Append(KeySeq(c), k)
             IN /\ req'[r].ai = "resolved" /\ req[r].ai = "pending"
                /\ \/ /\ KeySeq(c2) = stored
                      /\ MapGet(c2, k).reply = req'[r].reply
                      /\ MapGet(c2, k).timestamp = now
                      /\ MapHas(c, k) => MapIndex(c2, k) = MapIndex(c, k)
                   \/ /\ Len(stored) > CACHE_MAX
                      /\ KeySeq(c2) = Tail(stored)
                /\ \A i \in 1..Len(c2) :
                     c2[i].key # k => c2[i] = MapGet(c, c2[i].key)]_vars

\* the late reply for u:a replaced the stale entry at the head of a full
\* cache; the next store of a new key then removed it, although every entry
\* that stayed is older
C27_Witness ==
  \E r \in Slots :
    /\ Handled(r) /\ req[r].ai = "resolved" /\ req[r].lateStore = 1
    /\ CacheKey(req[r].ev) = FullCache[1].key
    /\ Len(evictLog) > req[r].evDone
    /\ evictLog[Len(evictLog)] = CacheKey(req[r].ev)
    /\ ~MapHas(responseCache, CacheKey(req[r].ev))
    /\ \E i \in 1..Len(responseCache) : responseCache[i].timestamp < req[r].doneAt

\* C28: a cache lookup never modifies the cache. The step in which an event
\* arrives and its key is looked up leaves the cache as it was, also when the
\* entry found is older than the TTL; an entry leaves the cache or changes
\* only in a step where a generation resolves, either overwritten by the store
\* for its own key or removed as the first key once the size exceeds the
\* capacity.
C28_LookupReadOnly ==
  [][LET c == responseCache  c2 == responseCache'
     IN /\ \A r \in Slots :
             Arrives(r) /\ req'[r].looked /\ req'[r].ai # "resolved" => c2 = c
        /\ \A i \in 1..Len(c) :
             \/ MapHas(c2, c[i].key) /\ MapGet(c2, c[i].key) = c[i]
             \/ \E r \in Slots :
                  /\ req[r].ai = "pending" /\ req'[r].ai = "resolved"
                  /\ \/ /\ CacheKey(req'[r].ev) = c[i].key
                        /\ MapHas(c2, c[i].key)
                        /\ MapGet(c2, c[i].key).timestamp = now
                     \/ /\ i = 1
                        /\ Len(c) + (IF MapHas(c, CacheKey(req'[r].ev)) THEN 0 ELSE 1)
                             > CACHE_MAX
                        /\ ~MapHas(c2, c[i].key)]_vars

\* a request looked up the stale first entry, and one deadline later the entry
\* is still in the cache as it was, and the cache is still full
C28_Witness ==
  \E r \in Slots :
    /\ Handled(r) /\ req[r].looked
    /\ req[r].lookAge >= CACHE_TTL_MS
    /\ now > req[r].at
    /\ Len(responseCache) = CACHE_MAX
    /\ responseCache[1] = FullCache[1]
    /\ CacheKey(req[r].ev) = FullCache[1].key

\* C29: when events with the same cache key generate concurrently, the cache
\* holds the reply of the generation that completed last, whatever the order
\* in which the events were submitted: every completion, in time or late,
\* overwrites the entry of its key with its own reply and the time of its
\* completion, so that the entry is always the reply of a completion no other
\* completion for that key came after.
C29_LastCompletionWins ==
  [][\A r \in Slots :
        req[r].ai = "pending" /\ req'[r].ai = "resolved"
        => LET k == CacheKey(req'[r].ev)
               c2 == responseCache'
           IN /\ MapHas(c2, k)
              /\ MapGet(c2, k).reply = req'[r].reply
              /\ MapGet(c2, k).timestamp = now
              /\ \A q \in Slots :
                    (Handled(q) /\ CacheKey(req'[q].ev) = k /\ req'[q].ai = "resolved")
                    => req'[q].doneAt <= MapGet(c2, k).timestamp]_vars

\* the older event timed out and completed after the newer event of the same
\* key had stored its own, different reply in time: the cache holds the older
\* event's reply with the later time
C29_Witness ==
  \E r1, r2 \in Slots :
    /\ Handled(r1) /\ Handled(r2)
    /\ CacheKey(req[r1].ev) = CacheKey(req[r2].ev)
    /\ req[r1].at < req[r2].at
    /\ req[r2].at < req[r1].doneAt
    /\ req[r1].ai = "resolved" /\ req[r2].ai = "resolved"
    /\ req[r2].outcome = "InTime" /\ req[r1].lateStore = 1
    /\ req[r2].doneAt < req[r1].doneAt
    /\ req[r1].reply # req[r2].reply
    /\ MapGet(responseCache, CacheKey(req[r1].ev)).reply = req[r1].reply
    /\ MapGet(responseCache, CacheKey(req[r1].ev)).timestamp = req[r1].doneAt

====
